---- MODULE Spec2Model ----
(***************************************************************************)
(* Hypnosis: the JSONL memory store (src/hypnosis/stores.py) and the       *)
(* Hypnotizer facade (src/hypnosis/core.py).                                *)
(*                                                                         *)
(* Representation.                                                         *)
(*  - A string whose characters matter (a fact's text, a priority tier     *)
(*    name, a query) is a sequence of one-character strings.  "LS" stands  *)
(*    for U+2028 LINE SEPARATOR: whitespace for str.strip, a line boundary *)
(*    for str.splitlines, and written raw by json.dumps(ensure_ascii=False)*)
(*  - A float priority is an integer number of hundredths (0.95 is 95).    *)
(*  - None is the empty tuple, a present optional value a 1-tuple.         *)
(*  - A timestamp string is the clock value it was taken at.               *)
(*  - The file is the sequence of its newline-terminated segments.  A      *)
(*    segment (and a line that splitlines cuts out of it) is a text, held  *)
(*    as [kind, has, val]: kind "object" is the text of a JSON object with *)
(*    the keys `has` and the values `val` (strings raw), "other" the text  *)
(*    of a JSON value that is not an object, "garbage" a text that is not  *)
(*    JSON, "blank" a text of whitespace only, "torn" what a write that   *)
(*    failed partway left: a text that is not JSON and has no newline.     *)
(***************************************************************************)
EXTENDS Integers, Sequences, FiniteSets, TLC

\* Bounds of the model.
MaxInit == 1
MaxWrites == 2
MaxTime == 1

VARIABLES
    exists,            \* storage_path.exists()
    file,              \* the segments of the storage file
    now,               \* the clock datetime.utcnow() reads
    nextId,            \* the next identifier uuid.uuid4() draws (fresh each time)
    default_priority,  \* Hypnotizer.default_priority
    op,                \* the operation that ran last
    arg,               \* its arguments
    err,               \* the exception it raised, "" when it returned
    ret,               \* the records it returned
    names,             \* the category names it returned
    flag,              \* the boolean it returned
    live,              \* history: the records written and not deleted since, in write order
    initial,           \* history: the file as the constructor found it
    calls              \* each process's call in progress on the storage file

vars == <<exists, file, now, nextId, default_priority, op, arg, err, ret, names, flag, live, initial, calls>>

----------------------------------------------------------------------------
(* Values *)

None == <<>>
Some(x) == <<x>>

AllKeys == {"id", "fact", "priority", "category", "metadata", "created_at"}

\* HypnotizedFact: the dataclass's six fields.
HypnotizedFact(id, fact, priority, category, metadata, created_at) ==
    [id |-> id, fact |-> fact, priority |-> priority, category |-> category,
     metadata |-> metadata, created_at |-> created_at]

\* The values a text that holds no object carries in `val`.
NoFact == HypnotizedFact(0, <<>>, 0, None, {}, 0)

\* The processes that hold a JSONLMemoryStore on the same storage_path.
Processes == {"p1", "p2"}

\* A process inside no call.  pc "write": inside write(fact), nothing appended
\* yet; pc "delete": inside delete(target), past read_all with `kept` the
\* list to write back, the file not yet reopened.
NoCall == [pc |-> "idle", fact |-> NoFact, target |-> 0, kept |-> <<>>]

PRIORITY_LEVELS ==
    [name \in {<<"c","r","i","t","i","c","a","l">>, <<"h","i","g","h">>,
               <<"m","e","d","i","u","m">>, <<"l","o","w">>} |->
        CASE name = <<"c","r","i","t","i","c","a","l">> -> 99
          [] name = <<"h","i","g","h">> -> 95
          [] name = <<"m","e","d","i","u","m">> -> 85
          [] name = <<"l","o","w">> -> 75]

----------------------------------------------------------------------------
(* str methods *)

ToLower == [A |-> "a", B |-> "b", C |-> "c", D |-> "d", E |-> "e", G |-> "g",
            H |-> "h", I |-> "i", L |-> "l", M |-> "m", O |-> "o", R |-> "r",
            T |-> "t", U |-> "u", W |-> "w"]

\* str.lower
lower(s) == [i \in 1..Len(s) |-> IF s[i] \in DOMAIN ToLower THEN ToLower[s[i]] ELSE s[i]]

\* str.isspace of one character
Whitespace == {" ", "LS"}

RECURSIVE lstrip(_)
lstrip(s) == IF s # <<>> /\ Head(s) \in Whitespace THEN lstrip(Tail(s)) ELSE s

RECURSIVE rstrip(_)
rstrip(s) ==
    IF s # <<>> /\ s[Len(s)] \in Whitespace THEN rstrip(SubSeq(s, 1, Len(s) - 1)) ELSE s

\* str.strip
strip(s) == rstrip(lstrip(s))

\* `sub in s` for strings
contains(s, sub) ==
    \E i \in 0..(Len(s) - Len(sub)) : SubSeq(s, i + 1, i + Len(sub)) = sub

\* The line boundaries of str.splitlines that json.dumps(ensure_ascii=False)
\* writes raw (control characters below U+0020 are escaped; U+2028 is not).
LineBreaks == {"LS"}

----------------------------------------------------------------------------
(* HypnotizedFact.to_dict / from_dict, json.dumps / json.loads *)

\* to_dict: a dict with all six keys.
to_dict(f) == [has |-> AllKeys, val |-> f]

\* json.dumps(d, ensure_ascii=False): the text of the object, strings raw.
json_dumps(d) == [kind |-> "object", has |-> d.has, val |-> d.val]

\* json.loads(line): the parsed value, or JSONDecodeError.
json_loads(line) ==
    CASE line.kind = "object" -> [err |-> "", isdict |-> TRUE, has |-> line.has, val |-> line.val]
      [] line.kind = "other" -> [err |-> "", isdict |-> FALSE, has |-> {}, val |-> NoFact]
      [] OTHER -> [err |-> "JSONDecodeError", isdict |-> FALSE, has |-> {}, val |-> NoFact]

\* from_dict(data) at clock t: data["id"], data["fact"], data["priority"] are
\* subscripts (TypeError on a value that is not a dict, KeyError on a missing
\* key); the other three are data.get with a default.
from_dict(data, t) ==
    IF ~data.isdict THEN [err |-> "TypeError", fact |-> NoFact]
    ELSE IF ~({"id", "fact", "priority"} \subseteq data.has)
         THEN [err |-> "KeyError", fact |-> NoFact]
    ELSE [err |-> "",
          fact |-> HypnotizedFact(
              data.val.id, data.val.fact, data.val.priority,
              IF "category" \in data.has THEN data.val.category ELSE None,
              IF "metadata" \in data.has THEN data.val.metadata ELSE {},
              IF "created_at" \in data.has THEN data.val.created_at ELSE t)]

----------------------------------------------------------------------------
(* str.splitlines on the file's text *)

Blank == [kind |-> "blank", has |-> {}, val |-> NoFact]
Garbage == [kind |-> "garbage", has |-> {}, val |-> NoFact]
Other == [kind |-> "other", has |-> {}, val |-> NoFact]
Torn == [kind |-> "torn", has |-> {}, val |-> NoFact]

\* The strings of the model's characters that are a JSON value on their own.
JSONLiterals == {<<"5">>}

\* The pieces of a string between its line-break characters.
RECURSIVE pieces(_, _)
pieces(s, cur) ==
    IF s = <<>> THEN <<cur>>
    ELSE IF Head(s) \in LineBreaks THEN <<cur>> \o pieces(Tail(s), <<>>)
    ELSE pieces(Tail(s), Append(cur, Head(s)))

\* The lines splitlines cuts one segment into.  A raw line break inside the
\* "fact" string cuts the object's text there: the first piece ends inside the
\* string and the last starts inside it (neither is JSON); a piece in between
\* is a run of the string's own characters, which may be blank or be JSON.
split_segment(seg) ==
    IF seg.kind = "object" /\ "fact" \in seg.has
       /\ \E i \in 1..Len(seg.val.fact) : seg.val.fact[i] \in LineBreaks
    THEN LET ps == pieces(seg.val.fact, <<>>)
         IN  [i \in 1..Len(ps) |->
                 IF i = 1 \/ i = Len(ps) THEN Garbage
                 ELSE IF strip(ps[i]) = <<>> THEN Blank
                 ELSE IF ps[i] \in JSONLiterals THEN Other
                 ELSE Garbage]
    ELSE <<seg>>

\* content.splitlines().  A torn segment has no newline, so its text runs on
\* into the first line of what was written after it, and the two together
\* are not JSON.
RECURSIVE splitlines(_)
splitlines(f) ==
    IF f = <<>> THEN <<>>
    ELSE IF Head(f).kind = "torn"
         THEN IF Tail(f) = <<>> THEN <<Garbage>>
              ELSE <<Garbage>> \o Tail(splitlines(Tail(f)))
    ELSE split_segment(Head(f)) \o splitlines(Tail(f))

----------------------------------------------------------------------------
(* JSONLMemoryStore *)

\* A faulty variant: the except clause names JSONDecodeError only.
Caught_DecodeOnly == {"JSONDecodeError"}

\* The exceptions read_all's except clause names.
Caught == {"JSONDecodeError", "KeyError"}

\* The loop of read_all over the lines, `facts` the list built so far.
RECURSIVE read_loop(_, _, _)
read_loop(lines, facts, t) ==
    IF lines = <<>> THEN [err |-> "", facts |-> facts]
    ELSE LET line == Head(lines)
             data == json_loads(line)
             made == from_dict(data, t)
             raised == IF data.err # "" THEN data.err ELSE made.err
         IN  IF line.kind = "blank" THEN read_loop(Tail(lines), facts, t)
             ELSE IF raised = "" THEN read_loop(Tail(lines), Append(facts, made.fact), t)
             ELSE IF raised \in Caught THEN read_loop(Tail(lines), facts, t)
             ELSE [err |-> raised, facts |-> <<>>]

\* read_all() at clock t.
read_all(ex, f, t) ==
    IF ~ex THEN [err |-> "", facts |-> <<>>]
    ELSE read_loop(splitlines(f), <<>>, t)

\* A faulty variant: the file opened with "w", so the line replaces the content.
write_Truncating(f, fact) == <<json_dumps(to_dict(fact))>>

\* write(fact): one serialised line appended.
write(f, fact) == Append(f, json_dumps(to_dict(fact)))

\* The list comprehension of delete.
without(facts, fact_id) == SelectSeq(facts, LAMBDA x : x.id # fact_id)

\* What delete writes to the file opened with "w": one line per kept record.
rewrite(kept) == [i \in 1..Len(kept) |-> json_dumps(to_dict(kept[i]))]

\* delete(fact_id) at clock t: the file after it, what it returns or raises.
delete(ex, f, fact_id, t) ==
    LET r == read_all(ex, f, t)
        kept == without(r.facts, fact_id)
    IN  IF r.err # "" THEN [err |-> r.err, ret |-> FALSE, file |-> f]
        ELSE IF Len(kept) = Len(r.facts) THEN [err |-> "", ret |-> FALSE, file |-> f]
        ELSE [err |-> "", ret |-> TRUE, file |-> rewrite(kept)]

----------------------------------------------------------------------------
(* The store used directly: write, read_all, delete *)

\* What the constructor may find at storage_path (it keeps an existing file):
\* lines of an earlier session or of another program, blank, not JSON, an
\* object without a required key, an object with the required keys only.
\* The object at position i has identifier i.
Found(i) ==
    {Blank, Garbage}
    \cup {[kind |-> "object", has |-> AllKeys \ {k},
           val |-> HypnotizedFact(IF k = "id" THEN 0 ELSE i,
                                  IF k = "fact" THEN <<>> ELSE <<"a">>,
                                  IF k = "priority" THEN 0 ELSE 85,
                                  Some("a"), {}, 0)] : k \in {"id", "fact", "priority"}}
    \cup {[kind |-> "object", has |-> {"id", "fact", "priority"},
           val |-> HypnotizedFact(i, <<"a">>, 85, None, {}, 0)]}

FoundFiles ==
    UNION {{f \in [1..n -> UNION {Found(i) : i \in 1..MaxInit}] :
               \A i \in 1..n : f[i] \in Found(i)} : n \in 0..MaxInit}

\* The records a caller hands to write: any text, priority, category, metadata.
Records(id) ==
    {HypnotizedFact(id, <<" ", "A">>, 150, Some("a"), {<<"k", "v">>}, 1),
     HypnotizedFact(id, <<"a", "LS", "b">>, 75, Some("b"), {}, 0),
     HypnotizedFact(id, <<"a", "LS", "5", "LS", "b">>, 75, None, {}, 0)}

NoArg == [id |-> 0, query |-> None, category |-> None, min_priority |-> 0,
          priority |-> [isstr |-> FALSE, s |-> <<>>, v |-> 0]]

\* JSONLMemoryStore.__init__: an absent file is created empty.
Init ==
    /\ exists = TRUE
    /\ file \in FoundFiles
    /\ initial = file
    /\ now = 0
    /\ nextId = Len(file) + 1
    /\ default_priority = 95
    /\ op = "init"
    /\ arg = NoArg
    /\ err = ""
    /\ ret = <<>>
    /\ names = <<>>
    /\ flag = FALSE
    /\ live = <<>>
    /\ calls = [p \in Processes |-> NoCall]

\* The clock advances between and during calls.
Tick ==
    /\ now < MaxTime
    /\ now' = now + 1
    /\ UNCHANGED <<exists, file, nextId, default_priority, op, arg, err, ret, names, flag, live, initial, calls>>

\* store.write(fact) of a record the caller constructed, its identifier fresh.
Write ==
    /\ nextId <= Len(initial) + MaxWrites
    /\ \E fact \in Records(nextId) :
        /\ file' = write(file, fact)
        /\ live' = Append(live, fact)
        /\ arg' = [NoArg EXCEPT !.id = fact.id]
    /\ exists' = TRUE
    /\ nextId' = nextId + 1
    /\ op' = "write"
    /\ ret' = <<>>
    /\ names' = <<>>
    /\ err' = ""
    /\ flag' = FALSE
    /\ UNCHANGED <<now, default_priority, initial, calls>>

\* store.read_all()
ReadAll ==
    /\ LET r == read_all(exists, file, now)
       IN  /\ err' = r.err
           /\ ret' = r.facts
    /\ op' = "read_all"
    /\ names' = <<>>
    /\ arg' = NoArg
    /\ flag' = FALSE
    /\ UNCHANGED <<exists, file, now, nextId, default_priority, live, initial, calls>>

\* store.delete(fact_id), for an identifier in use or not (0 is never one).
Delete ==
    /\ \E fact_id \in 0..(nextId - 1) :
        LET d == delete(exists, file, fact_id, now)
        IN  /\ file' = d.file
            /\ err' = d.err
            /\ flag' = d.ret
            /\ arg' = [NoArg EXCEPT !.id = fact_id]
            /\ live' = without(live, fact_id)
    /\ op' = "delete"
    /\ ret' = <<>>
    /\ names' = <<>>
    /\ UNCHANGED <<exists, now, nextId, default_priority, initial, calls>>

Next == Tick \/ Write \/ ReadAll \/ Delete

Spec == Init /\ [][Next]_vars

----------------------------------------------------------------------------
(* Hypnotizer *)

\* Python's two-argument min and max: the first argument unless the second
\* is strictly smaller (larger).
pymin(a, b) == IF b < a THEN b ELSE a
pymax(a, b) == IF b > a THEN b ELSE a

\* A faulty variant: the tier lookup without .lower().
priority_value_CaseSensitive(priority, default) ==
    IF priority.isstr
    THEN IF priority.s \in DOMAIN PRIORITY_LEVELS
         THEN PRIORITY_LEVELS[priority.s]
         ELSE default
    ELSE pymax(0, pymin(100, priority.v))

\* A faulty variant: a numeric priority taken as given.
priority_value_Unclamped(priority, default) ==
    IF priority.isstr
    THEN IF lower(priority.s) \in DOMAIN PRIORITY_LEVELS
         THEN PRIORITY_LEVELS[lower(priority.s)]
         ELSE default
    ELSE priority.v

\* inject's normalisation of `priority`, a str or a number.
priority_value(priority, default) ==
    IF priority.isstr
    THEN IF lower(priority.s) \in DOMAIN PRIORITY_LEVELS
         THEN PRIORITY_LEVELS[lower(priority.s)]
         ELSE default
    ELSE pymax(0, pymin(100, priority.v))

\* The record inject constructs: a fresh identifier, the clock's timestamp.
hypnotized(id, fact, priority, category, metadata, default, t) ==
    HypnotizedFact(id, strip(fact), priority_value(priority, default), category,
                   IF metadata = None THEN {} ELSE metadata[1], t)

\* A faulty variant: a sort that puts a record before the records of equal priority.
RECURSIVE insert_sorted_Unstable(_, _)
insert_sorted_Unstable(sorted, x) ==
    IF sorted = <<>> THEN <<x>>
    ELSE IF Head(sorted).priority > x.priority
         THEN <<Head(sorted)>> \o insert_sorted_Unstable(Tail(sorted), x)
         ELSE <<x>> \o sorted

\* list.sort(key=priority, reverse=True): stable, so a record goes behind
\* every record already placed whose priority is not lower.
RECURSIVE insert_sorted(_, _)
insert_sorted(sorted, x) ==
    IF sorted = <<>> THEN <<x>>
    ELSE IF Head(sorted).priority >= x.priority
         THEN <<Head(sorted)>> \o insert_sorted(Tail(sorted), x)
         ELSE <<x>> \o sorted

RECURSIVE sort_by_priority(_, _)
sort_by_priority(facts, sorted) ==
    IF facts = <<>> THEN sorted
    ELSE sort_by_priority(Tail(facts), insert_sorted(sorted, Head(facts)))

\* recall's three filters, in the code's order.
filter_category(facts, category) ==
    IF category # None THEN SelectSeq(facts, LAMBDA f : f.category = category) ELSE facts

\* A faulty variant: the threshold itself is excluded.
filter_priority_Strict(facts, min_priority) ==
    IF min_priority > 0
    THEN SelectSeq(facts, LAMBDA f : f.priority > min_priority)
    ELSE facts

filter_priority(facts, min_priority) ==
    IF min_priority > 0
    THEN SelectSeq(facts, LAMBDA f : f.priority >= min_priority)
    ELSE facts

filter_query(facts, query) ==
    IF query # None
    THEN SelectSeq(facts, LAMBDA f : contains(lower(f.fact), lower(query[1])))
    ELSE facts

\* recall(query, category, min_priority) on the snapshot read_all returned.
recall(facts, query, category, min_priority) ==
    sort_by_priority(
        filter_query(filter_priority(filter_category(facts, category), min_priority), query),
        <<>>)

\* The order of str comparison on the category names of the model.
CategoryRank == [a |-> 1, b |-> 2]

\* sorted(categories) of a set of str.
RECURSIVE sorted(_)
sorted(categories) ==
    IF categories = {} THEN <<>>
    ELSE LET m == CHOOSE x \in categories :
                      \A y \in categories : CategoryRank[x] <= CategoryRank[y]
         IN  <<m>> \o sorted(categories \ {m})

\* list_categories() on the snapshot read_all returned.
list_categories(facts) ==
    sorted({facts[i].category[1] : i \in {k \in 1..Len(facts) : facts[k].category # None}})

Str(s) == [isstr |-> TRUE, s |-> s, v |-> 0]
Num(v) == [isstr |-> FALSE, s |-> <<>>, v |-> v]

\* What callers pass to inject: <<fact, priority, category, metadata>>.
Injections ==
    {<<<<" ", "A", "b">>, Str(<<"C","R","I","T","I","C","A","L">>), Some("b"), None>>,
     <<<<"b", "a">>, Str(<<"H","i","g","h">>), Some("a"), Some({<<"k", "v">>})>>,
     <<<<"a">>, Str(<<"m","e","D","i","u","m">>), None, Some({})>>,
     <<<<"a", "LS", "b">>, Str(<<"l","o","w">>), Some("a"), None>>,
     <<<<"a">>, Str(<<"l","o","w","e","r">>), None, None>>,
     <<<<"a", "LS", "5", "LS", "b">>, Num(-50), Some("b"), None>>,
     <<<<"b", " ">>, Num(85), Some("a"), None>>,
     <<<<"a">>, Num(150), None, None>>}

\* What callers pass to recall: <<query, category, min_priority>>.
Recalls ==
    {<<None, None, 0>>, <<Some(<<"A">>), None, 0>>, <<Some(<<"a", "B">>), None, 0>>,
     <<None, Some("a"), 0>>, <<None, None, 95>>, <<Some(<<"A">>), Some("a"), 95>>}

\* Hypnotizer.__init__ over a store that created its file: default_priority is
\* the declared default or what the caller gives, stored as given.  The
\* facade's operations are taken at one reading of the clock.
InitFacade ==
    /\ exists = TRUE
    /\ file = <<>>
    /\ initial = file
    /\ now = 0
    /\ nextId = Len(file) + 1
    /\ default_priority \in {95, 150}
    /\ op = "init"
    /\ arg = NoArg
    /\ err = ""
    /\ ret = <<>>
    /\ names = <<>>
    /\ flag = FALSE
    /\ live = <<>>
    /\ calls = [p \in Processes |-> NoCall]

\* inject(fact, priority, category, metadata)
Inject ==
    /\ nextId <= Len(initial) + MaxWrites
    /\ \E i \in Injections :
        LET h == hypnotized(nextId, i[1], i[2], i[3], i[4], default_priority, now)
        IN  /\ file' = write(file, h)
            /\ live' = Append(live, h)
            /\ arg' = [NoArg EXCEPT !.id = h.id, !.priority = i[2]]
            /\ ret' = <<h>>
    /\ exists' = TRUE
    /\ nextId' = nextId + 1
    /\ op' = "inject"
    /\ names' = <<>>
    /\ err' = ""
    /\ flag' = FALSE
    /\ UNCHANGED <<now, default_priority, initial, calls>>

\* recall(query, category, min_priority)
Recall ==
    /\ \E q \in Recalls :
        LET r == read_all(exists, file, now)
        IN  /\ err' = r.err
            /\ ret' = IF r.err = "" THEN recall(r.facts, q[1], q[2], q[3]) ELSE <<>>
            /\ arg' = [NoArg EXCEPT !.query = q[1], !.category = q[2],
                                    !.min_priority = q[3]]
    /\ op' = "recall"
    /\ names' = <<>>
    /\ flag' = FALSE
    /\ UNCHANGED <<exists, file, now, nextId, default_priority, live, initial, calls>>

\* forget(fact_id): the store's delete, its result unchanged.
Forget ==
    /\ \E fact_id \in 0..(nextId - 1) :
        LET d == delete(exists, file, fact_id, now)
        IN  /\ file' = d.file
            /\ err' = d.err
            /\ flag' = d.ret
            /\ arg' = [NoArg EXCEPT !.id = fact_id]
            /\ live' = without(live, fact_id)
    /\ op' = "forget"
    /\ ret' = <<>>
    /\ names' = <<>>
    /\ UNCHANGED <<exists, now, nextId, default_priority, initial, calls>>

\* list_categories()
ListCategories ==
    /\ LET r == read_all(exists, file, now)
       IN  /\ err' = r.err
           /\ names' = IF r.err = "" THEN list_categories(r.facts) ELSE <<>>
    /\ op' = "list_categories"
    /\ ret' = <<>>
    /\ arg' = NoArg
    /\ flag' = FALSE
    /\ UNCHANGED <<exists, file, now, nextId, default_priority, live, initial, calls>>

NextFacade == Inject \/ Recall \/ Forget \/ ListCategories

SpecFacade == InitFacade /\ [][NextFacade]_vars

----------------------------------------------------------------------------
(* Several processes on one storage file.  The store takes no lock: write   *)
(* is one append (atomic, as the medium is taken to provide), delete is a   *)
(* read_all, then later a rewrite of the file opened with "w".              *)

\* Every process constructed its store on a storage_path with no file yet.
InitWriters == Init /\ file = <<>>

\* write(fact) called by process p: the record is built, nothing appended yet.
WriteBegin(p) ==
    /\ calls[p].pc = "idle"
    /\ nextId <= Len(initial) + MaxWrites
    /\ \E fact \in Records(nextId) :
        /\ calls' = [calls EXCEPT ![p] = [NoCall EXCEPT !.pc = "write", !.fact = fact]]
        /\ arg' = [NoArg EXCEPT !.id = fact.id]
    /\ nextId' = nextId + 1
    /\ op' = "write"
    /\ ret' = <<>>
    /\ names' = <<>>
    /\ err' = ""
    /\ flag' = FALSE
    /\ UNCHANGED <<exists, file, now, default_priority, live, initial>>

\* The append of p's write takes effect and write returns.
WriteAppend(p) ==
    /\ calls[p].pc = "write"
    /\ file' = write(file, calls[p].fact)
    /\ live' = Append(live, calls[p].fact)
    /\ calls' = [calls EXCEPT ![p] = NoCall]
    /\ exists' = TRUE
    /\ op' = "write"
    /\ arg' = [NoArg EXCEPT !.id = calls[p].fact.id]
    /\ ret' = <<>>
    /\ names' = <<>>
    /\ err' = ""
    /\ flag' = FALSE
    /\ UNCHANGED <<now, nextId, default_priority, initial>>

\* delete(fact_id) called by process p, up to its early return: read_all
\* raises, or nothing was removed and False is returned, or the list to write
\* back is held and the file is untouched so far.
DeleteRead(p) ==
    /\ calls[p].pc = "idle"
    /\ \E fact_id \in 0..(nextId - 1) :
        LET r == read_all(exists, file, now)
            kept == without(r.facts, fact_id)
        IN  /\ err' = r.err
            /\ calls' = IF r.err = "" /\ Len(kept) # Len(r.facts)
                        THEN [calls EXCEPT ![p] = [NoCall EXCEPT !.pc = "delete",
                                                                 !.target = fact_id,
                                                                 !.kept = kept]]
                        ELSE calls
            /\ arg' = [NoArg EXCEPT !.id = fact_id]
            /\ live' = without(live, fact_id)
    /\ op' = "delete"
    /\ flag' = FALSE
    /\ ret' = <<>>
    /\ names' = <<>>
    /\ UNCHANGED <<exists, file, now, nextId, default_priority, initial>>

\* A faulty variant: the rewrite reads the file again (as under a lock held
\* from the read to the rewrite).
DeleteRewrite_Rereading(p) ==
    /\ calls[p].pc = "delete"
    /\ file' = rewrite(without(read_all(exists, file, now).facts, calls[p].target))
    /\ calls' = [calls EXCEPT ![p] = NoCall]
    /\ op' = "delete"
    /\ arg' = [NoArg EXCEPT !.id = calls[p].target]
    /\ err' = ""
    /\ flag' = TRUE
    /\ ret' = <<>>
    /\ names' = <<>>
    /\ UNCHANGED <<exists, now, nextId, default_priority, live, initial>>

\* The rest of p's delete: the file is opened with "w" and the list held
\* since the read is written back; True is returned.
DeleteRewrite(p) ==
    /\ calls[p].pc = "delete"
    /\ file' = rewrite(calls[p].kept)
    /\ calls' = [calls EXCEPT ![p] = NoCall]
    /\ op' = "delete"
    /\ arg' = [NoArg EXCEPT !.id = calls[p].target]
    /\ err' = ""
    /\ flag' = TRUE
    /\ ret' = <<>>
    /\ names' = <<>>
    /\ UNCHANGED <<exists, now, nextId, default_priority, live, initial>>

NextWriters ==
    \/ \E p \in Processes : WriteBegin(p)
    \/ \E p \in Processes : WriteAppend(p)
    \/ \E p \in Processes : DeleteRead(p)
    \/ \E p \in Processes : DeleteRewrite(p)
    \/ ReadAll

SpecWriters == InitWriters /\ [][NextWriters]_vars

\* Writers only: no process calls delete.
NextAppenders ==
    \/ \E p \in Processes : WriteBegin(p)
    \/ \E p \in Processes : WriteAppend(p)
    \/ ReadAll

SpecAppenders == InitWriters /\ [][NextAppenders]_vars

----------------------------------------------------------------------------
(* I/O failure.  Neither write nor delete catches OSError; a write that     *)
(* fails leaves nothing or the start of its line, and delete has truncated *)
(* the file (open with "w") before it writes the first record back.        *)

\* What a failed append may leave after the content f.
torn_appends(f) == {f, Append(f, Torn)}

\* What a rewrite of `kept` that stops partway leaves in the truncated file:
\* the first k lines, and possibly the start of the next.
partial_rewrites(kept) ==
    {SubSeq(rewrite(kept), 1, k) \o t : k \in 0..(Len(kept) - 1), t \in {<<>>, <<Torn>>}}

\* inject(...) whose store.write raises OSError: the record was constructed
\* (an identifier drawn), the exception leaves inject, nothing is returned.
InjectFails ==
    /\ nextId <= Len(initial) + MaxWrites
    /\ \E i \in Injections :
        LET h == hypnotized(nextId, i[1], i[2], i[3], i[4], default_priority, now)
        IN  /\ file' \in torn_appends(file)
            /\ arg' = [NoArg EXCEPT !.id = h.id, !.priority = i[2]]
    /\ nextId' = nextId + 1
    /\ op' = "inject"
    /\ err' = "OSError"
    /\ ret' = <<>>
    /\ names' = <<>>
    /\ flag' = FALSE
    /\ UNCHANGED <<exists, now, default_priority, live, initial, calls>>

\* delete(fact_id) that found the record and whose rewrite raises OSError (or
\* whose process stops) after the file was truncated.
DeleteFails ==
    /\ \E fact_id \in 0..(nextId - 1) :
        LET r == read_all(exists, file, now)
            kept == without(r.facts, fact_id)
        IN  /\ r.err = ""
            /\ Len(kept) # Len(r.facts)
            /\ file' \in partial_rewrites(kept)
            /\ arg' = [NoArg EXCEPT !.id = fact_id]
            /\ live' = without(live, fact_id)
    /\ op' = "delete"
    /\ err' = "OSError"
    /\ flag' = FALSE
    /\ ret' = <<>>
    /\ names' = <<>>
    /\ UNCHANGED <<exists, now, nextId, default_priority, initial, calls>>

NextFailure == Inject \/ InjectFails \/ ReadAll \/ Delete \/ DeleteFails

SpecFailure == InitFacade /\ [][NextFailure]_vars

----------------------------------------------------------------------------
(* Properties of the store (checked under Spec) *)

\* A line read_all is to accept: an object with the three required keys.
IsValidLine(l) == l.kind = "object" /\ {"id", "fact", "priority"} \subseteq l.has

ValidLines(f) == SelectSeq(splitlines(f), IsValidLine)

HasRecord(f, fact_id) ==
    \E i \in 1..Len(ValidLines(f)) : ValidLines(f)[i].val.id = fact_id

\* Record r carries every value line l stores.
SameStored(r, l) ==
    /\ r.id = l.val.id
    /\ r.fact = l.val.fact
    /\ r.priority = l.val.priority
    /\ "category" \in l.has => r.category = l.val.category
    /\ "metadata" \in l.has => r.metadata = l.val.metadata
    /\ "created_at" \in l.has => r.created_at = l.val.created_at

\* The stored values of the valid lines, in order.
Stored(f) ==
    [i \in 1..Len(ValidLines(f)) |->
        LET l == ValidLines(f)[i]
        IN  [id |-> l.val.id, fact |-> l.val.fact, priority |-> l.val.priority,
             category |-> IF "category" \in l.has THEN l.val.category ELSE None,
             metadata |-> IF "metadata" \in l.has THEN l.val.metadata ELSE {}]]

\* C1: starting from an empty store, after any writes and deletes read_all
\* returns exactly the records written and not deleted since, each once, in
\* the order they were written.
C1_ReadYourWrites ==
    initial = <<>> => read_all(exists, file, now) = [err |-> "", facts |-> live]

\* C2: delete(id) on a store holding a valid record with that id returns
\* true, removes exactly that record, and leaves every other valid record
\* with its values and in its order.
C2_DeleteExisting ==
    [][(Delete /\ HasRecord(file, arg'.id)) =>
          /\ err' = ""
          /\ flag' = TRUE
          /\ ~HasRecord(file', arg'.id)
          /\ Stored(file') = without(Stored(file), arg'.id)]_vars

\* C3: delete(id) on a store holding no valid record with that id returns
\* false, raises nothing, and leaves the file as it was, line for line.
C3_DeleteUnknown ==
    [][(Delete /\ ~HasRecord(file, arg'.id)) =>
          /\ err' = ""
          /\ flag' = FALSE
          /\ file' = file]_vars

\* C4: a written record is one stored line that parses back to the same
\* record, and N records written to an empty store are read back as the same
\* N records in the same order.
C4_RoundTrip ==
    /\ op = "write" =>
          LET lines == split_segment(file[Len(file)])
          IN  /\ Len(lines) = 1
              /\ from_dict(json_loads(lines[1]), now) = [err |-> "", fact |-> live[Len(live)]]
    /\ (initial = <<>> /\ Len(live) = nextId - 1) =>
          /\ read_all(exists, file, now).err = ""
          /\ read_all(exists, file, now).facts = live

\* C5: when every line of the store is a valid record, not JSON (blank
\* included) or an object without a required key, read_all raises nothing and
\* returns exactly the valid lines' records in their stored order.
C5_CorruptionTolerance ==
    (op = "read_all" /\ \A i \in 1..Len(splitlines(file)) : splitlines(file)[i].kind # "other") =>
        /\ err = ""
        /\ Len(ret) = Len(ValidLines(file))
        /\ \A i \in 1..Len(ret) : SameStored(ret[i], ValidLines(file)[i])

\* C5's case: read_all has returned records from a store that also holds a
\* line that is not JSON and an object without a required key.
C5_Witness ==
    /\ op = "read_all"
    /\ err = ""
    /\ ret # <<>>
    /\ \A i \in 1..Len(splitlines(file)) : splitlines(file)[i].kind # "other"
    /\ \E i \in 1..Len(splitlines(file)) : splitlines(file)[i].kind = "garbage"
    /\ \E i \in 1..Len(splitlines(file)) :
          splitlines(file)[i].kind = "object" /\ ~IsValidLine(splitlines(file)[i])

\* C6: read_all skips every line that is not the expected object, a JSON
\* value that is not an object included: it raises nothing and returns the
\* valid lines' records only.
C6_BadLineSkipped ==
    op = "read_all" =>
        /\ err = ""
        /\ Len(ret) = Len(ValidLines(file))

----------------------------------------------------------------------------
(* Properties of the facade (checked under SpecFacade) *)

\* Record f passes the filters recall was given.
Matches(f, a) ==
    /\ a.category # None => f.category = a.category
    /\ a.min_priority > 0 => f.priority >= a.min_priority
    /\ a.query # None =>
          \E i \in 0..(Len(f.fact) - Len(a.query[1])) :
              \A k \in 1..Len(a.query[1]) : lower(f.fact)[i + k] = lower(a.query[1])[k]

Position(snapshot, f) == CHOOSE k \in 1..Len(snapshot) : snapshot[k] = f

\* C7: recall returns exactly the records of the read_all snapshot that pass
\* every filter given (category equal, priority >= min_priority when that is
\* above 0, text containing the query whatever the letter case), each once.
C7_RecallFilters ==
    (op = "recall" /\ err = "") =>
        LET snapshot == read_all(exists, file, now).facts
        IN  /\ \A i \in 1..Len(ret) :
                  /\ \E k \in 1..Len(snapshot) : snapshot[k] = ret[i]
                  /\ Matches(ret[i], arg)
            /\ \A k \in 1..Len(snapshot) :
                  Matches(snapshot[k], arg) =>
                      Cardinality({i \in 1..Len(ret) : ret[i] = snapshot[k]}) = 1

\* C7's case: a recall with all three filters returned some records of the
\* snapshot and left others out.
C7_Witness ==
    /\ op = "recall"
    /\ err = ""
    /\ arg.category # None /\ arg.query # None /\ arg.min_priority > 0
    /\ ret # <<>>
    /\ Len(ret) < Len(read_all(exists, file, now).facts)

\* C8: recall's result is in descending priority, and records of equal
\* priority are in the order of the snapshot (their write order).
C8_RecallSorted ==
    (op = "recall" /\ err = "") =>
        LET snapshot == read_all(exists, file, now).facts
        IN  \A i, j \in 1..Len(ret) :
                i < j =>
                    \/ ret[i].priority > ret[j].priority
                    \/ /\ ret[i].priority = ret[j].priority
                       /\ Position(snapshot, ret[i]) < Position(snapshot, ret[j])

\* C8's case: a recall returned two records of equal priority.
C8_Witness ==
    /\ op = "recall"
    /\ err = ""
    /\ Len(ret) >= 2
    /\ ret[1].priority = ret[2].priority
    /\ ret[1].id # ret[2].id

\* C9: every record inject creates has its priority within [0.0, 1.0],
\* whatever the priority given and whatever default_priority was configured.
C9_PriorityInRange ==
    op = "inject" => (ret[1].priority >= 0 /\ ret[1].priority <= 100)

\* String s is `name` in some letter case.
AnyCase(s, name) ==
    /\ Len(s) = Len(name)
    /\ \A i \in 1..Len(s) :
          \/ s[i] = name[i]
          \/ s[i] \in DOMAIN ToLower /\ ToLower[s[i]] = name[i]

\* C10: for a string priority, inject's record has the tier's value
\* (critical 0.99, high 0.95, medium 0.85, low 0.75) when the string is a tier
\* name in any letter case and the configured default priority otherwise, and
\* inject raises nothing.
C10_TierPriority ==
    (op = "inject" /\ arg.priority.isstr) =>
        /\ err = ""
        /\ ret[1].priority =
              CASE AnyCase(arg.priority.s, <<"c","r","i","t","i","c","a","l">>) -> 99
                [] AnyCase(arg.priority.s, <<"h","i","g","h">>) -> 95
                [] AnyCase(arg.priority.s, <<"m","e","d","i","u","m">>) -> 85
                [] AnyCase(arg.priority.s, <<"l","o","w">>) -> 75
                [] OTHER -> default_priority

\* C10's case: inject was given a tier name in upper case.
C10_Witness ==
    /\ op = "inject"
    /\ arg.priority = Str(<<"C","R","I","T","I","C","A","L">>)
    /\ ret[1].priority = 99


\* C11: for a numeric priority p, inject returns and writes to the file a
\* record whose priority is max(0.0, min(1.0, p)): 0.0 below the range, 1.0
\* above it, p inside it.
C11_NumericClamp ==
    (op = "inject" /\ ~arg.priority.isstr) =>
        LET p == arg.priority.v
            clamped == IF p < 0 THEN 0 ELSE IF p > 100 THEN 100 ELSE p
        IN  /\ err = ""
            /\ ret[1].priority = clamped
            /\ file[Len(file)].val.id = ret[1].id
            /\ file[Len(file)].val.priority = clamped

\* C11's case: inject was given a number above the range.
C11_Witness ==
    /\ op = "inject"
    /\ arg.priority = Num(150)
    /\ ret[1].priority = 100

\* The category names of a list of records.
CategoriesOf(facts) ==
    {facts[i].category[1] : i \in {k \in 1..Len(facts) : facts[k].category # None}}

\* C12: after any injects and forgets, list_categories returns exactly the
\* distinct categories of the records injected and not forgotten, without
\* duplicates, in ascending order.
C12_ListCategories ==
    op = "list_categories" =>
        /\ err = ""
        /\ {names[i] : i \in 1..Len(names)} = CategoriesOf(live)
        /\ \A i, j \in 1..Len(names) :
              i < j => CategoryRank[names[i]] < CategoryRank[names[j]]


\* C13: once inject has returned record r, every recall whose filters r
\* passes contains r until forget(r.id); that forget returns true, after it
\* no recall contains r, and a further forget(r.id) returns false.
C13_Lifecycle ==
    [][/\ Recall =>
            /\ err' = ""
            /\ \A i \in 1..Len(live) :
                  Matches(live[i], arg') => \E k \in 1..Len(ret') : ret'[k] = live[i]
            /\ \A k \in 1..Len(ret') : \E i \in 1..Len(live) : live[i] = ret'[k]
       /\ Forget =>
            /\ err' = ""
            /\ flag' = (\E i \in 1..Len(live) : live[i].id = arg'.id)]_vars

----------------------------------------------------------------------------
(* Further properties of the store (checked under Spec) *)

\* C14: two read_all calls with no write or delete between them return equal
\* lists of records, equal in every field, however much time passes between
\* them, and read_all leaves the file as it was.
C14_ReadIdempotent ==
    [][(op = "read_all" /\ ReadAll) =>
          /\ err' = err
          /\ ret' = ret
          /\ file' = file]_vars

\* C17: write appends one newline-terminated line, the record's
\* serialisation, and leaves what the file held before (valid, blank and
\* malformed lines alike) as an unchanged prefix.
C17_WriteAppends ==
    [][Write =>
          /\ Len(file') = Len(file) + 1
          /\ SubSeq(file', 1, Len(file)) = file
          /\ file'[Len(file')] = json_dumps(to_dict(live'[Len(live')]))
          /\ file'[Len(file')].kind # "torn"]_vars

\* A write onto a file that held a blank or malformed line.
C17_Witness ==
    /\ op = "write"
    /\ Len(file) = 2
    /\ file[1].kind \in {"blank", "garbage"}
    /\ file[2].kind = "object"
    /\ file[2].val.id = arg.id

\* C18: after a delete that returns true the file is one line per remaining
\* valid record, each an object with all six keys, in the original order, and
\* read_all then equals the read_all made before the delete with the target
\* removed, created_at included.
C18_DeleteRewrites ==
    [][(op = "read_all" /\ err = "" /\ Delete /\ flag') =>
          LET remaining == without(ret, arg'.id)
          IN  /\ Len(file') = Len(remaining)
              /\ \A i \in 1..Len(file') :
                    /\ file'[i].kind = "object"
                    /\ file'[i].has = AllKeys
                    /\ file'[i].val.id = remaining[i].id
              /\ read_all(exists', file', now').err = ""
              /\ read_all(exists', file', now').facts = remaining]_vars

----------------------------------------------------------------------------
(* Properties of several processes on one file (checked under SpecWriters  *)
(* and SpecAppenders)                                                       *)

\* The file holds a line that carries the identifier.
InFile(f, id) == \E i \in 1..Len(f) : f[i].kind = "object" /\ f[i].val.id = id

\* A call in progress holds the record: to append it, or to write it back.
Held(c, id) ==
    \E p \in Processes :
        \/ c[p].pc = "write" /\ c[p].fact.id = id
        \/ c[p].pc = "delete" /\ \E i \in 1..Len(c[p].kept) : c[p].kept[i].id = id

\* C15: delete's rewrite puts back the list it read earlier, whatever has been
\* appended since, and no lock keeps an append out of that window; a record
\* that is in the file no longer and that no call in progress holds never
\* comes back, so every later read_all lacks it.
C15_LostUpdate ==
    [][/\ \A p \in Processes :
            (calls[p].pc = "delete" /\ calls'[p].pc = "idle") =>
                file' = rewrite(calls[p].kept)
       /\ \A id \in 1..(nextId - 1) :
            (~InFile(file, id) /\ ~Held(calls, id)) => ~InFile(file', id)]_vars

\* A write that completed, its record never the target of a delete and its text
\* free of line boundaries, the record in the file no longer, no call in progress.
C15_Witness ==
    /\ \A p \in Processes : calls[p].pc = "idle"
    /\ read_all(exists, file, now).err = ""
    /\ \E i \in 1..Len(live) :
          /\ \A k \in 1..Len(live[i].fact) : live[i].fact[k] \notin LineBreaks
          /\ ~InFile(file, live[i].id)
          /\ \A k \in 1..Len(read_all(exists, file, now).facts) :
                read_all(exists, file, now).facts[k].id # live[i].id

\* C19: with writes only, once every write has returned, read_all returns the
\* written records, each once, in the order their appends took effect.
C19_AppendsKept ==
    (\A p \in Processes : calls[p].pc = "idle") =>
        /\ read_all(exists, file, now).err = ""
        /\ read_all(exists, file, now).facts = live

----------------------------------------------------------------------------
(* Properties under I/O failure (checked under SpecFailure) *)

\* C16: an inject whose write fails raises, returns no record and leaves
\* read_all as it was before the call; an inject that returns a record has
\* stored it, and the next read_all returns it.
C16_InjectAllOrNothing ==
    [][/\ InjectFails =>
             /\ err' # ""
             /\ ret' = <<>>
             /\ read_all(exists', file', now') = read_all(exists, file, now)
       /\ Inject =>
             /\ err' = ""
             /\ read_all(exists', file', now').err = ""
             /\ \E k \in 1..Len(read_all(exists', file', now').facts) :
                   read_all(exists', file', now').facts[k] = ret'[1]]_vars

\* C20: when delete does not complete because the rewrite fails partway,
\* every record other than the target that read_all returned before the call
\* is still returned by read_all afterwards.
C20_DeleteAllOrNothing ==
    [][DeleteFails =>
          /\ read_all(exists', file', now').err = ""
          /\ \A i \in 1..Len(read_all(exists, file, now).facts) :
                read_all(exists, file, now).facts[i].id # arg'.id =>
                    \E k \in 1..Len(read_all(exists', file', now').facts) :
                        read_all(exists', file', now').facts[k].id =
                            read_all(exists, file, now).facts[i].id]_vars

====
